---- MODULE Spec2Model ----
(***************************************************************************)
(* Model of crypto.py: a command-line tool for four classical ciphers      *)
(* (rotation, substitution, numeric value, atbash) and the argument        *)
(* validation that dispatches to them.                                     *)
(*                                                                         *)
(* A character is its ASCII code; a Python str is a sequence of codes.     *)
(* Python indexes from 0, TLA+ sequences from 1: StrIndex and PyAt keep    *)
(* the Python convention and translate at the sequence access.             *)
(***************************************************************************)
EXTENDS Integers, Sequences, FiniteSets, TLC

VARIABLES
    in_text,            \* pure-function harness: the text first given
    in_key,             \* pure-function harness: the key (int or str)
    result,             \* pure-function harness: [err, out] of the last call
    calls,              \* pure-function harness: functions applied so far
    letters,            \* subst_logic_gen: the pool list
    final_text,         \* subst_logic_gen: the key built so far
    gen_i,              \* subst_logic_gen: iterations of the for loop done
    free_picks,         \* subst_logic_gen: unconstrained draws still allowed
    args,               \* argument_parser: the parsed command line
    fs,                 \* argument_parser: the files os.path.isfile sees
    pc,                 \* argument_parser: the section reached
    SELECTED_CIPHER,
    SELECTED_OPERATION,
    TEXT,
    KEY,
    stdout,             \* lines printed
    exit_status,        \* "running", "ok", "usage_error" or an exception name
    invoked             \* the cipher function called and its arguments

vars == << in_text, in_key, result, calls, letters, final_text, gen_i,
           free_picks, args, fs, pc, SELECTED_CIPHER, SELECTED_OPERATION,
           TEXT, KEY, stdout, exit_status, invoked >>

fnVars  == << in_text, in_key, result, calls >>
genVars == << letters, final_text, gen_i, free_picks >>
cliVars == << args, fs, pc, SELECTED_CIPHER, SELECTED_OPERATION, TEXT, KEY,
              stdout, exit_status, invoked >>

None == "None"

-----------------------------------------------------------------------------
(* Bounds of the model *)

MaxLen == 3          \* longest text drawn for the cipher functions
MaxKey == 30         \* rotation keys are drawn from -MaxKey..MaxKey
MaxFreePicks == 1    \* draws of subst_logic_gen left unconstrained
MaxCalls == 2        \* cipher functions applied in a row to one text

-----------------------------------------------------------------------------
(* Characters and Python string primitives *)

AlphabetLen == 26

ascii_lowercase == [n \in 1..AlphabetLen |-> 96 + n]
ascii_uppercase == [n \in 1..AlphabetLen |-> 64 + n]

letters_lower == ascii_lowercase
letters_upper == ascii_uppercase

Digits == 48..57
Whitespace == (9..13) \cup (28..32)
SPACE == 32
PLUS == 43
MINUS == 45
UNDERSCORE == 95
COLON == 58

Range(s) == {s[n] : n \in 1..Len(s)}

\* `char in s` for a one-character operand
In(char, s) == \E n \in 1..Len(s) : s[n] = char

\* s.index(char): 0-based position of the first occurrence
StrIndex(s, char) ==
    (CHOOSE n \in 1..Len(s) : s[n] = char /\ \A m \in 1..(n - 1) : s[m] # char) - 1

\* s[k] is defined for -len(s) <= k < len(s); anything else is an IndexError
InRange(s, k) == -Len(s) <= k /\ k < Len(s)
PyAt(s, k) == IF k >= 0 THEN s[k + 1] ELSE s[Len(s) + k + 1]

UpperChar(c) == IF c \in 97..122 THEN c - 32 ELSE c
LowerChar(c) == IF c \in 65..90 THEN c + 32 ELSE c
upper(s) == [n \in 1..Len(s) |-> UpperChar(s[n])]
lower(s) == [n \in 1..Len(s) |-> LowerChar(s[n])]

RECURSIVE lstrip(_)
lstrip(s) == IF s # << >> /\ Head(s) \in Whitespace THEN lstrip(Tail(s)) ELSE s

RECURSIVE rstrip(_)
rstrip(s) ==
    IF s # << >> /\ s[Len(s)] \in Whitespace
    THEN rstrip(SubSeq(s, 1, Len(s) - 1))
    ELSE s

strip(s) == rstrip(lstrip(s))

isdigit(s) == s # << >> /\ \A n \in 1..Len(s) : s[n] \in Digits

\* str(n) for an integer
RECURSIVE NatToStr(_)
NatToStr(n) ==
    IF n < 10 THEN << 48 + n >> ELSE Append(NatToStr(n \div 10), 48 + (n % 10))

IntToStr(n) == IF n < 0 THEN << MINUS >> \o NatToStr(0 - n) ELSE NatToStr(n)

\* int(s): surrounding whitespace, an optional sign, then decimal digits
\* with single underscores allowed between digits
Unsigned(s) == IF s # << >> /\ Head(s) \in {PLUS, MINUS} THEN Tail(s) ELSE s

IsIntLiteral(s) ==
    LET body == Unsigned(strip(s)) IN
        /\ body # << >>
        /\ \A n \in 1..Len(body) : body[n] \in Digits \cup {UNDERSCORE}
        /\ body[1] \in Digits
        /\ body[Len(body)] \in Digits
        /\ \A n \in 1..(Len(body) - 1) :
               ~(body[n] = UNDERSCORE /\ body[n + 1] = UNDERSCORE)

RECURSIVE DigitsValue(_, _)
DigitsValue(s, acc) ==
    IF s = << >> THEN acc
    ELSE IF Head(s) = UNDERSCORE THEN DigitsValue(Tail(s), acc)
    ELSE DigitsValue(Tail(s), 10 * acc + (Head(s) - 48))

ParseInt(s) ==
    LET t == strip(s)
        magnitude == DigitsValue(Unsigned(t), 0)
    IN  IF t # << >> /\ Head(t) = MINUS THEN 0 - magnitude ELSE magnitude

\* s.split(): the maximal runs of non-whitespace characters, in order
RECURSIVE SplitLoop(_, _, _)
SplitLoop(s, cur, acc) ==
    IF s = << >> THEN (IF cur = << >> THEN acc ELSE Append(acc, cur))
    ELSE IF Head(s) \in Whitespace
         THEN SplitLoop(Tail(s), << >>, IF cur = << >> THEN acc ELSE Append(acc, cur))
         ELSE SplitLoop(Tail(s), Append(cur, Head(s)), acc)

split(s) == SplitLoop(s, << >>, << >>)

\* what a cipher function hands back: the exception raised, if any, and the
\* lines it printed
Ok(lines) == [err |-> "none", out |-> lines]
Raise(exc) == [err |-> exc, out |-> << >>]

\* all strings over a character set, up to a length
RECURSIVE StringsUpTo(_, _)
StringsUpTo(chars, n) ==
    IF n = 0 THEN {<< >>}
    ELSE LET shorter == StringsUpTo(chars, n - 1) IN
         shorter \cup {Append(s, c) : s \in {t \in shorter : Len(t) = n - 1}, c \in chars}

-----------------------------------------------------------------------------
(* rot *)

RotChar(char, key) ==
    IF In(char, letters_lower)
    THEN PyAt(letters_lower, (StrIndex(letters_lower, char) + key) % AlphabetLen)
    ELSE IF In(char, letters_upper)
    THEN PyAt(letters_upper, (StrIndex(letters_upper, char) + key) % AlphabetLen)
    ELSE char

rot_logic(text, key) == [n \in 1..Len(text) |-> RotChar(text[n], key)]

\* range(1, 27) in place of range(26)
rot_bruteforce_From1(text) ==
    [n \in 1..AlphabetLen |->
        << 82, 79, 84, SPACE >> \o IntToStr(n) \o << COLON, SPACE >>
            \o rot_logic(text, n)]

rot_bruteforce(text) ==
    [n \in 1..AlphabetLen |->
        << 82, 79, 84, SPACE >> \o IntToStr(n - 1) \o << COLON, SPACE >>
            \o rot_logic(text, n - 1)]

RotInfo == << 82, 111, 116, SPACE, 105, 110, 102, 111 >>

\* decrypt shifting forward, like encrypt
rot_ForwardDecrypt(text, key, operation, rnd) ==
    IF operation = "bruteforce" THEN Ok(rot_bruteforce(text))
    ELSE IF operation = "generate" THEN Ok(<< IntToStr(rnd) >>)
    ELSE IF operation = "info" THEN Ok(<< RotInfo >>)
    ELSE Ok(<< rot_logic(text, key) >>)

\* rnd is the value random.randint(1, 26) returns
rot(text, key, operation, rnd) ==
    IF operation = "encrypt" THEN Ok(<< rot_logic(text, key) >>)
    ELSE IF operation = "decrypt" THEN Ok(<< rot_logic(text, 0 - key) >>)
    ELSE IF operation = "bruteforce" THEN Ok(rot_bruteforce(text))
    ELSE IF operation = "generate" THEN Ok(<< IntToStr(rnd) >>)
    ELSE IF operation = "info" THEN Ok(<< RotInfo >>)
    ELSE Ok(<< >>)

-----------------------------------------------------------------------------
(* subst *)

RECURSIVE SubstEncLoop(_, _, _, _)
SubstEncLoop(text, key_lower, key_upper, acc) ==
    IF text = << >> THEN [err |-> "none", out |-> acc]
    ELSE LET char == Head(text) IN
         IF In(char, letters_lower)
         THEN IF InRange(key_lower, StrIndex(letters_lower, char))
              THEN SubstEncLoop(Tail(text), key_lower, key_upper,
                       Append(acc, PyAt(key_lower, StrIndex(letters_lower, char))))
              ELSE Raise("IndexError")
         ELSE IF In(char, letters_upper)
         THEN IF InRange(key_upper, StrIndex(letters_upper, char))
              THEN SubstEncLoop(Tail(text), key_lower, key_upper,
                       Append(acc, PyAt(key_upper, StrIndex(letters_upper, char))))
              ELSE Raise("IndexError")
         ELSE SubstEncLoop(Tail(text), key_lower, key_upper, Append(acc, char))

\* the key used as given, without key.lower() and key.upper()
subst_logic_enc_KeyAsGiven(text, key) == SubstEncLoop(text, key, key, << >>)

subst_logic_enc(text, key) == SubstEncLoop(text, lower(key), upper(key), << >>)

RECURSIVE SubstDecLoop(_, _, _, _)
SubstDecLoop(text, key_lower, key_upper, acc) ==
    IF text = << >> THEN [err |-> "none", out |-> acc]
    ELSE LET char == Head(text) IN
         IF In(char, key_lower)
         THEN IF InRange(letters_lower, StrIndex(key_lower, char))
              THEN SubstDecLoop(Tail(text), key_lower, key_upper,
                       Append(acc, PyAt(letters_lower, StrIndex(key_lower, char))))
              ELSE Raise("IndexError")
         ELSE IF In(char, key_upper)
         THEN IF InRange(letters_upper, StrIndex(key_upper, char))
              THEN SubstDecLoop(Tail(text), key_lower, key_upper,
                       Append(acc, PyAt(letters_upper, StrIndex(key_upper, char))))
              ELSE Raise("IndexError")
         ELSE SubstDecLoop(Tail(text), key_lower, key_upper, Append(acc, char))

subst_logic_dec(text, key) == SubstDecLoop(text, lower(key), upper(key), << >>)

\* letters.pop(0) whatever was drawn
Pop_First(pool, rnd) == Tail(pool)

\* letters.pop(rnd)
Pop(pool, rnd) ==
    SubSeq(pool, 1, rnd) \o SubSeq(pool, rnd + 2, Len(pool))

\* one iteration of the for loop of subst_logic_gen, rnd being the value
\* random.randint(0, len(letters) - 1) returns: [final_text, letters] after it
GenIteration(built, pool, rnd) ==
    [final_text |-> Append(built, PyAt(pool, rnd)), letters |-> Pop(pool, rnd)]

\* the draw the loop makes at each iteration when it follows a fixed rule
GenDraw(rule, pool) ==
    IF rule = "first" THEN 0
    ELSE IF rule = "last" THEN Len(pool) - 1
    ELSE Len(pool) \div 2

RECURSIVE GenLoop(_, _, _, _)
GenLoop(rule, built, pool, n) ==
    IF n = AlphabetLen THEN built
    ELSE LET after == GenIteration(built, pool, GenDraw(rule, pool)) IN
         GenLoop(rule, after.final_text, after.letters, n + 1)

subst_logic_gen(rule) == GenLoop(rule, << >>, ascii_uppercase, 0)

SubstInfo == << 83, 117, 98, 115, 116 >>

Printed(r) == IF r.err = "none" THEN Ok(<< r.out >>) ELSE Raise(r.err)

subst(text, key, operation, rule) ==
    IF operation = "encrypt" THEN Printed(subst_logic_enc(text, key))
    ELSE IF operation = "decrypt" THEN Printed(subst_logic_dec(text, key))
    ELSE IF operation = "generate" THEN Ok(<< subst_logic_gen(rule) >>)
    ELSE IF operation = "info" THEN Ok(<< SubstInfo >>)
    ELSE Ok(<< >>)

-----------------------------------------------------------------------------
(* numval *)

RECURSIVE NumvalEncLoop(_, _)
NumvalEncLoop(text, acc) ==
    IF text = << >> THEN acc
    ELSE LET char == Head(text) IN
         IF In(char, ascii_uppercase)
         THEN NumvalEncLoop(Tail(text),
                  acc \o IntToStr(StrIndex(ascii_uppercase, char) + 1) \o << SPACE >>)
         ELSE IF char = SPACE
         THEN NumvalEncLoop(Tail(text), acc \o << 48, SPACE >>)
         ELSE NumvalEncLoop(Tail(text), acc)

\* the loop run over text instead of text.upper()
numval_logic_enc_NoUpper(text) == NumvalEncLoop(text, << >>)

numval_logic_enc(text) == NumvalEncLoop(upper(text), << >>)

\* list(map(int, text.split())): a ValueError at the first token int rejects
RECURSIVE NumvalDecLoop(_, _)
NumvalDecLoop(tokens, acc) ==
    IF tokens = << >> THEN [err |-> "none", out |-> acc]
    ELSE LET char == Head(tokens) IN
         IF char # 0
         THEN IF InRange(ascii_uppercase, char - 1)
              THEN NumvalDecLoop(Tail(tokens), Append(acc, PyAt(ascii_uppercase, char - 1)))
              ELSE Raise("IndexError")
         ELSE NumvalDecLoop(Tail(tokens), Append(acc, SPACE))

numval_logic_dec(text) ==
    LET tokens == split(text) IN
    IF \E n \in 1..Len(tokens) : ~IsIntLiteral(tokens[n])
    THEN Raise("ValueError")
    ELSE NumvalDecLoop([n \in 1..Len(tokens) |-> ParseInt(tokens[n])], << >>)

NumvalInfo == << 78, 117, 109 >>

numval(text, operation) ==
    IF operation = "encrypt" THEN Ok(<< numval_logic_enc(text) >>)
    ELSE IF operation = "decrypt" THEN Printed(numval_logic_dec(text))
    ELSE IF operation = "info" THEN Ok(<< NumvalInfo >>)
    ELSE Ok(<< >>)

-----------------------------------------------------------------------------
(* atbash *)

\* mirrored around 26 instead of 25
AtbashChar_OffByOne(char) ==
    IF In(char, letters_lower)
    THEN PyAt(letters_lower, (26 - StrIndex(letters_lower, char)) % AlphabetLen)
    ELSE IF In(char, letters_upper)
    THEN PyAt(letters_upper, (26 - StrIndex(letters_upper, char)) % AlphabetLen)
    ELSE char

AtbashChar(char) ==
    IF In(char, letters_lower)
    THEN PyAt(letters_lower, 25 - StrIndex(letters_lower, char))
    ELSE IF In(char, letters_upper)
    THEN PyAt(letters_upper, 25 - StrIndex(letters_upper, char))
    ELSE char

atbash_logic(text) == [n \in 1..Len(text) |-> AtbashChar(text[n])]

AtbashInfo == << 65, 116, 98 >>

atbash(text, operation) ==
    IF operation = "encrypt" \/ operation = "decrypt" THEN Ok(<< atbash_logic(text) >>)
    ELSE IF operation = "info" THEN Ok(<< AtbashInfo >>)
    ELSE Ok(<< >>)

-----------------------------------------------------------------------------
(* Inputs *)

HELLO == << 72, 69, 76, 76, 79 >>
QWERTY == << 81, 87, 69, 82, 84, 89, 85, 73, 79, 80, 65, 83, 68, 70, 71, 72,
             74, 75, 76, 90, 88, 67, 86, 66, 78, 77 >>

\* key alphabets a*i + b (mod 26), upper case at even positions and lower
\* case at odd ones when mixed
AffineKey(a, b, mixed) ==
    [n \in 1..AlphabetLen |->
        LET c == 65 + ((a * (n - 1) + b) % AlphabetLen) IN
        IF mixed /\ n % 2 = 1 THEN LowerChar(c) ELSE c]

PermutationKeys ==
    { ascii_uppercase, ascii_lowercase, QWERTY, lower(QWERTY),
      AffineKey(25, 25, FALSE), AffineKey(5, 8, TRUE), AffineKey(7, 3, TRUE) }

MalformedKeys ==
    { << >>, << 97, 98, 99 >>,                       \* "", "abc"
      [n \in 1..AlphabetLen |-> 65],                  \* 26 times "A"
      ascii_uppercase \o << 65 >>,                    \* 27 characters
      [n \in 1..AlphabetLen |-> IF n = 1 THEN 49 ELSE 64 + n] }  \* "1BC...Z"

RotTexts    == StringsUpTo({65, 90, 97, 122, 33}, MaxLen) \cup {HELLO}
SubstTexts  == StringsUpTo({65, 90, 97, 122, 49}, MaxLen)
NumvalTexts == StringsUpTo({65, 122, SPACE, 49, 9, 33}, MaxLen)
AtbashTexts == StringsUpTo({65, 90, 97, 110, 49, SPACE}, MaxLen)

-----------------------------------------------------------------------------
(* The cipher functions applied in a row: each call takes the text the     *)
(* call before printed.                                                    *)

IdleGen == /\ letters = << >>
           /\ final_text = << >>
           /\ gen_i = 0
           /\ free_picks = 0

IdleCli == /\ args = << >>
           /\ fs = << >>
           /\ pc = "idle"
           /\ SELECTED_CIPHER = None
           /\ SELECTED_OPERATION = None
           /\ TEXT = [type |-> "NoneType"]
           /\ KEY = [type |-> "NoneType"]
           /\ stdout = << >>
           /\ exit_status = "idle"
           /\ invoked = [type |-> "NoneType"]

IdleFn == /\ in_text = << >>
          /\ in_key = 0
          /\ result = [err |-> "none", out |-> << >>]
          /\ calls = << >>

CanCall == Len(calls) < MaxCalls /\ result.err = "none"

\* the one line an encrypt or decrypt call printed, or the exception it raised
Returned(r) == IF r.err = "none" THEN [err |-> "none", out |-> r.out[1]] ELSE r

Apply(name, r) ==
    /\ result' = r
    /\ calls' = Append(calls, name)
    /\ UNCHANGED << in_text, in_key, genVars, cliVars >>

InitFn(texts, keys) ==
    /\ in_text \in texts
    /\ in_key \in keys
    /\ result = [err |-> "none", out |-> in_text]
    /\ calls = << >>
    /\ IdleGen
    /\ IdleCli

\* rot
InitRot == InitFn(RotTexts, (0 - MaxKey)..MaxKey)

RotEncrypt ==
    /\ CanCall
    /\ Apply("encrypt", Returned(rot(result.out, in_key, "encrypt", 1)))

RotDecrypt ==
    /\ CanCall
    /\ Apply("decrypt", Returned(rot(result.out, in_key, "decrypt", 1)))

NextRot == RotEncrypt \/ RotDecrypt

SpecRot == InitRot /\ [][NextRot]_vars

\* subst
InitSubst == InitFn(SubstTexts, PermutationKeys \cup MalformedKeys)

SubstEncrypt ==
    /\ CanCall
    /\ Apply("encrypt", Returned(subst(result.out, in_key, "encrypt", "first")))

SubstDecrypt ==
    /\ CanCall
    /\ Apply("decrypt", Returned(subst(result.out, in_key, "decrypt", "first")))

NextSubst == SubstEncrypt \/ SubstDecrypt

SpecSubst == InitSubst /\ [][NextSubst]_vars

\* numval
InitNumval == InitFn(NumvalTexts, {0})

NumvalEncrypt ==
    /\ CanCall
    /\ Apply("encrypt", Returned(numval(result.out, "encrypt")))

NumvalDecrypt ==
    /\ CanCall
    /\ Apply("decrypt", Returned(numval(result.out, "decrypt")))

NextNumval == NumvalEncrypt \/ NumvalDecrypt

SpecNumval == InitNumval /\ [][NextNumval]_vars

\* atbash
InitAtbash == InitFn(AtbashTexts, {0})

AtbashEncrypt ==
    /\ CanCall
    /\ Apply("encrypt", Returned(atbash(result.out, "encrypt")))

AtbashDecrypt ==
    /\ CanCall
    /\ Apply("decrypt", Returned(atbash(result.out, "decrypt")))

NextAtbash == AtbashEncrypt \/ AtbashDecrypt

SpecAtbash == InitAtbash /\ [][NextAtbash]_vars

-----------------------------------------------------------------------------
(* subst_logic_gen, one iteration of its for loop per step.  The draw is   *)
(* any index of the pool while free_picks lasts, and index 0 after that.   *)

InitGen ==
    /\ letters = ascii_uppercase
    /\ final_text = << >>
    /\ gen_i = 0
    /\ free_picks = MaxFreePicks
    /\ IdleFn
    /\ IdleCli

GenIterate ==
    /\ gen_i < AlphabetLen
    /\ \E rnd \in 0..(Len(letters) - 1) :
         /\ rnd = 0 \/ free_picks > 0
         /\ free_picks' = IF rnd = 0 THEN free_picks ELSE free_picks - 1
         /\ LET after == GenIteration(final_text, letters, rnd) IN
              /\ final_text' = after.final_text
              /\ letters' = after.letters
    /\ gen_i' = gen_i + 1
    /\ UNCHANGED << fnVars, cliVars >>

NextGen == GenIterate

SpecGen == InitGen /\ [][NextGen]_vars

-----------------------------------------------------------------------------
(* argument_parser: one run of the program, one section per step *)

\* Python values whose type the code tests
PyNone == [type |-> "NoneType"]
PyStr(s) == [type |-> "str", val |-> s]
PyInt(n) == [type |-> "int", val |-> n]

CIPHER_INFO ==
    [rot    |-> [operations |-> {"encrypt", "decrypt", "bruteforce", "generate", "info"},
                 key_type   |-> "int",
                 func_args  |-> << "text", "key", "operation" >>],
     subst  |-> [operations |-> {"encrypt", "decrypt", "generate", "info"},
                 key_type   |-> "str",
                 func_args  |-> << "text", "key", "operation" >>],
     numval |-> [operations |-> {"encrypt", "decrypt", "info"},
                 key_type   |-> None,
                 func_args  |-> << "text", "operation" >>],
     atbash |-> [operations |-> {"encrypt", "decrypt", "info"},
                 key_type   |-> None,
                 func_args  |-> << "text", "operation" >>]]

Ciphers == {"rot", "subst", "numval", "atbash"}
Operations == {"encrypt", "decrypt", "bruteforce", "generate", "info"}

\* command lines tried
FileF == << 102 >>          \* "f"
FileK == << 107 >>          \* "k"

TextArgs ==
    { HELLO,
      << SPACE, 72, 105, 49, SPACE >>,      \* " Hi1 "
      << 122 >>,                             \* "z"
      << >>,                                 \* ""
      << 49 >>,                              \* "1"
      << SPACE, 52, 50, 10 >>,               \* " 42\n"
      << 51, SPACE, 49, SPACE, 50 >>,        \* "3 1 2"
      << 49, SPACE, 50, 55 >>,               \* "1 27"
      << MINUS, 49 >>,                       \* "-1"
      << 48, SPACE, MINUS, 50, 54 >>,        \* "0 -26"
      << 49, SPACE, 120 >>,                  \* "1 x"
      FileF }

KeyArgs ==
    { << 51 >>,                              \* "3"
      << MINUS, 51 >>,                       \* "-3"
      << 50, 57, SPACE >>,                   \* "29 "
      << 49, UNDERSCORE, 48 >>,              \* "1_0"
      << 97, 98, 99 >>,                      \* "abc"
      << >>,                                 \* ""
      QWERTY,
      FileK }

FsChoices ==
    { << >>,
      (FileF :> << 49, 50, 10 >>) @@ (FileK :> << SPACE, 49, 51, 10 >>),  \* "12\n", " 13\n"
      (FileF :> << 104, 105, 10 >>) @@ (FileK :> lower(QWERTY) \o << 10 >>) }  \* "hi\n"

isfile(path) == path \in DOMAIN fs

GenRules == {"first", "last", "middle"}

InitCli ==
    /\ args \in [cipher : Ciphers \cup {None},
                 operation : Operations \cup {None},
                 text : {PyNone} \cup {PyStr(t) : t \in TextArgs},
                 key : {PyNone} \cup {PyStr(k) : k \in KeyArgs}]
    /\ fs \in FsChoices
    /\ pc = "parse_args"
    /\ SELECTED_CIPHER = None
    /\ SELECTED_OPERATION = None
    /\ TEXT = PyNone
    /\ KEY = PyNone
    /\ stdout = << >>
    /\ exit_status = "running"
    /\ invoked = PyNone
    /\ IdleFn
    /\ IdleGen

\* parser.error: the message and usage on stderr, exit status 2
ParserError ==
    /\ pc' = "exit"
    /\ exit_status' = "usage_error"

\* parser.parse_args(): both flag groups are required
ParseArgs ==
    /\ pc = "parse_args"
    /\ IF args.cipher = None \/ args.operation = None
       THEN ParserError
       ELSE pc' = "detect_cipher" /\ UNCHANGED exit_status
    /\ UNCHANGED << args, fs, SELECTED_CIPHER, SELECTED_OPERATION, TEXT, KEY,
                    stdout, invoked, fnVars, genVars >>

DetectCipher ==
    /\ pc = "detect_cipher"
    /\ SELECTED_CIPHER' = args.cipher
    /\ IF args.cipher = None
       THEN ParserError
       ELSE pc' = "detect_operation" /\ UNCHANGED exit_status
    /\ UNCHANGED << args, fs, SELECTED_OPERATION, TEXT, KEY, stdout, invoked,
                    fnVars, genVars >>

DetectOperation ==
    /\ pc = "detect_operation"
    /\ SELECTED_OPERATION' = IF args.operation = None THEN "encrypt" ELSE args.operation
    /\ pc' = "check_compatibility"
    /\ UNCHANGED << args, fs, SELECTED_CIPHER, TEXT, KEY, stdout, exit_status,
                    invoked, fnVars, genVars >>

Compatible(cipher, operation) == operation \in CIPHER_INFO[cipher].operations

CheckCompatibility ==
    /\ pc = "check_compatibility"
    /\ IF ~Compatible(SELECTED_CIPHER, SELECTED_OPERATION)
       THEN ParserError
       ELSE pc' = "load_text" /\ UNCHANGED exit_status
    /\ UNCHANGED << args, fs, SELECTED_CIPHER, SELECTED_OPERATION, TEXT, KEY,
                    stdout, invoked, fnVars, genVars >>

\* the file's contents if the argument names a file, else the argument; stripped
Load(arg) == IF isfile(arg) THEN strip(fs[arg]) ELSE strip(arg)

\* the test on the loaded text, exempting what numval decrypt reads
RejectNumericText_ExceptNumvalDecrypt(cipher, operation, text) ==
    isdigit(text) /\ ~(cipher = "numval" /\ operation = "decrypt")

RejectNumericText(cipher, operation, text) == isdigit(text)

LoadText ==
    /\ pc = "load_text"
    /\ IF SELECTED_OPERATION \in {"encrypt", "decrypt", "bruteforce"}
       THEN IF args.text.type = "NoneType"
            THEN ParserError /\ UNCHANGED TEXT
            ELSE /\ TEXT' = PyStr(Load(args.text.val))
                 /\ IF RejectNumericText(SELECTED_CIPHER, SELECTED_OPERATION,
                                         Load(args.text.val))
                    THEN ParserError
                    ELSE pc' = "load_key" /\ UNCHANGED exit_status
       ELSE IF args.text.type # "NoneType"
            THEN ParserError /\ UNCHANGED TEXT
            ELSE pc' = "load_key" /\ UNCHANGED << exit_status, TEXT >>
    /\ UNCHANGED << args, fs, SELECTED_CIPHER, SELECTED_OPERATION, KEY, stdout,
                    invoked, fnVars, genVars >>

\* a key is asked for by encrypt only
KeyRequired_EncryptOnly(cipher, operation) ==
    CIPHER_INFO[cipher].key_type # None /\ operation = "encrypt"

KeyRequired(cipher, operation) ==
    CIPHER_INFO[cipher].key_type # None /\ operation \in {"encrypt", "decrypt"}

\* try: KEY = int(KEY) / except ValueError: pass
Coerce(k) == IF IsIntLiteral(k) THEN PyInt(ParseInt(k)) ELSE PyStr(k)

LoadKey ==
    /\ pc = "load_key"
    /\ IF KeyRequired(SELECTED_CIPHER, SELECTED_OPERATION)
       THEN IF args.key.type = "NoneType"
            THEN ParserError /\ UNCHANGED KEY
            ELSE /\ KEY' = Coerce(Load(args.key.val))
                 /\ pc' = "check_key_type"
                 /\ UNCHANGED exit_status
       ELSE pc' = "check_key_type" /\ UNCHANGED << exit_status, KEY >>
    /\ UNCHANGED << args, fs, SELECTED_CIPHER, SELECTED_OPERATION, TEXT, stdout,
                    invoked, fnVars, genVars >>

\* only a non-integer key for an int cipher is refused
KeyTypeMismatch_IntOnly(key_type, k) ==
    key_type # None /\ k.type # "NoneType" /\ key_type = "int" /\ k.type # "int"

KeyTypeMismatch(key_type, k) ==
    /\ key_type # None
    /\ k.type # "NoneType"
    /\ \/ key_type = "int" /\ k.type # "int"
       \/ key_type = "str" /\ k.type # "str"

CheckKeyType ==
    /\ pc = "check_key_type"
    /\ IF KeyTypeMismatch(CIPHER_INFO[SELECTED_CIPHER].key_type, KEY)
       THEN ParserError
       ELSE pc' = "call" /\ UNCHANGED exit_status
    /\ UNCHANGED << args, fs, SELECTED_CIPHER, SELECTED_OPERATION, TEXT, KEY,
                    stdout, invoked, fnVars, genVars >>

\* the argument list built from func_args
FuncArgs(cipher) ==
    LET names == CIPHER_INFO[cipher].func_args IN
    [n \in 1..Len(names) |->
        IF names[n] = "text" THEN [arg |-> "text", value |-> TEXT]
        ELSE IF names[n] = "key" THEN [arg |-> "key", value |-> KEY]
        ELSE [arg |-> "operation", value |-> PyStr(SELECTED_OPERATION)]]

Val(x) == IF x.type = "NoneType" THEN << >> ELSE x.val

HasLetter(s) == \E n \in 1..Len(s) : In(s[n], letters_lower) \/ In(s[n], letters_upper)

\* the cipher function run on the values passed.  Python checks types as it
\* goes: iterating None or adding a str or None to an int is a TypeError,
\* and an int or None has no lower()
CallResult(cipher, operation, rnd, rule) ==
    IF operation \in {"encrypt", "decrypt", "bruteforce"} /\ TEXT.type # "str"
    THEN Raise("TypeError")
    ELSE IF cipher = "rot"
    THEN IF operation \in {"encrypt", "decrypt"} /\ KEY.type # "int"
         THEN IF operation = "encrypt" /\ ~HasLetter(Val(TEXT))
              THEN Ok(<< Val(TEXT) >>)
              ELSE Raise("TypeError")
         ELSE rot(Val(TEXT), Val(KEY), operation, rnd)
    ELSE IF cipher = "subst"
    THEN IF operation \in {"encrypt", "decrypt"} /\ KEY.type # "str"
         THEN Raise("AttributeError")
         ELSE subst(Val(TEXT), Val(KEY), operation, rule)
    ELSE IF cipher = "numval" THEN numval(Val(TEXT), operation)
    ELSE atbash(Val(TEXT), operation)

CallCipher ==
    /\ pc = "call"
    /\ invoked' = [type |-> "call", func |-> SELECTED_CIPHER,
                   args |-> FuncArgs(SELECTED_CIPHER)]
    /\ \E rnd \in 1..AlphabetLen, rule \in GenRules :
         LET r == CallResult(SELECTED_CIPHER, SELECTED_OPERATION, rnd, rule) IN
           /\ stdout' = r.out
           /\ exit_status' = IF r.err = "none" THEN "ok" ELSE r.err
    /\ pc' = "exit"
    /\ UNCHANGED << args, fs, SELECTED_CIPHER, SELECTED_OPERATION, TEXT, KEY,
                    fnVars, genVars >>

NextCli ==
    \/ ParseArgs
    \/ DetectCipher
    \/ DetectOperation
    \/ CheckCompatibility
    \/ LoadText
    \/ LoadKey
    \/ CheckKeyType
    \/ CallCipher

SpecCli == InitCli /\ [][NextCli]_vars

-----------------------------------------------------------------------------
(* Properties of the cipher functions *)

UpperLetters == 65..90
LowerLetters == 97..122

IsAlphabetic(s) == \A n \in 1..Len(s) : s[n] \in UpperLetters \cup LowerLetters

\* each of the 26 letters once, in either case
IsPermutationKey(k) ==
    /\ Len(k) = 26
    /\ \A c \in UpperLetters : Cardinality({n \in 1..Len(k) : UpperChar(k[n]) = c}) = 1

EncryptedThenDecrypted == calls = << "encrypt", "decrypt" >>

\* C1: decrypting with key K what rot encrypted with key K gives back the
\* text, for every alphabetic text and every integer key, 0, negative keys
\* and keys of 26 or more included.
C1_RotRoundTrip ==
    (EncryptedThenDecrypted /\ IsAlphabetic(in_text))
        => (result.err = "none" /\ result.out = in_text)

C1_Witness ==
    /\ EncryptedThenDecrypted
    /\ in_text = << 65, 122, 90 >>
    /\ in_key = 0 - 27
    /\ result.out = in_text

\* C2: decrypting with a permutation key P what subst encrypted with P gives
\* back the alphabetic text, every character in its original case.
C2_SubstRoundTrip ==
    (EncryptedThenDecrypted /\ IsAlphabetic(in_text) /\ IsPermutationKey(in_key))
        => (result.err = "none" /\ result.out = in_text)

C2_Witness ==
    /\ EncryptedThenDecrypted
    /\ in_text = << 97, 90, 122 >>
    /\ in_key = QWERTY
    /\ result.out = in_text

IsLetterOrSpace(c) == c \in UpperLetters \/ c = 32

\* C3: numval decrypt of numval encrypt of a text is the text uppercased
\* with everything that is neither a letter nor a space removed.
C3_NumvalLossyRoundTrip ==
    EncryptedThenDecrypted
        => (result.err = "none"
            /\ result.out = SelectSeq(upper(in_text), IsLetterOrSpace))

C3_Witness ==
    /\ EncryptedThenDecrypted
    /\ in_text = << 122, 49, 32 >>
    /\ result.out = << 90, 32 >>

\* the same-case letter at alphabet index 25 - i
Mirror(c) ==
    IF c \in UpperLetters THEN 65 + (25 - (c - 65))
    ELSE IF c \in LowerLetters THEN 97 + (25 - (c - 97))
    ELSE c

\* C4: atbash encrypt and decrypt are one transform, the mirror of every
\* letter in its own case with other characters unchanged, and applying it
\* twice gives back the text.
C4_AtbashSelfInverse ==
    /\ Len(calls) = 1 =>
         (result.err = "none"
          /\ result.out = [n \in 1..Len(in_text) |-> Mirror(in_text[n])])
    /\ Len(calls) = 2 => (result.err = "none" /\ result.out = in_text)

C4_Witness ==
    /\ calls = << "decrypt", "encrypt" >>
    /\ in_text = << 97, 49, 90 >>
    /\ result.out = in_text

\* C5: at every step of the pick-and-remove loop the letters emitted and the
\* letters in the pool are disjoint and together the alphabet, and after 26
\* iterations the pool is empty and the key holds each of A..Z exactly once.
C5_GenPermutation ==
    /\ Range(final_text) \cap Range(letters) = {}
    /\ Range(final_text) \cup Range(letters) = UpperLetters
    /\ Len(final_text) = gen_i
    /\ Len(letters) = 26 - gen_i
    /\ gen_i = 26 =>
         /\ letters = << >>
         /\ Len(final_text) = 26
         /\ \A c \in UpperLetters :
                Cardinality({n \in 1..Len(final_text) : final_text[n] = c}) = 1

C5_Witness ==
    /\ gen_i = 26
    /\ letters = << >>
    /\ final_text[1] = 65
    /\ final_text[2] = 90
    /\ free_picks = 0

-----------------------------------------------------------------------------
(* Properties of a run *)

Exited == pc = "exit"
UsageError == Exited /\ exit_status = "usage_error"
NotInvoked == invoked.type = "NoneType"
Invoked == invoked.type = "call"

\* what -t stands for: the named file's contents or the argument, trimmed
GivenText == strip(IF args.text.val \in DOMAIN fs THEN fs[args.text.val] ELSE args.text.val)

PurelyNumeric(s) == Len(s) > 0 /\ \A n \in 1..Len(s) : s[n] \in 48..57

\* a letter moved k places forward in its own alphabet, wrapping around
Forward(c, k) ==
    IF c \in UpperLetters THEN 65 + ((c - 65 + k) % 26)
    ELSE IF c \in LowerLetters THEN 97 + ((c - 97 + k) % 26)
    ELSE c

Decimal(k) == IF k < 10 THEN << 48 + k >> ELSE << 48 + (k \div 10), 48 + (k % 10) >>

\* "ROT <k>: " and the text moved forward by k
BruteforceLine(k, t) ==
    << 82, 79, 84, 32 >> \o Decimal(k) \o << 58, 32 >>
        \o [n \in 1..Len(t) |-> Forward(t[n], k)]

RotBruteforceRun ==
    /\ Exited
    /\ args.cipher = "rot"
    /\ args.operation = "bruteforce"
    /\ args.text.type = "str"
    /\ ~PurelyNumeric(GivenText)

\* C6: rot bruteforce prints 26 lines, for the keys 0..25 in ascending
\* order, line i labelled with key i and carrying the text moved forward by
\* i, whether or not a key was supplied; for HELLO line 0 carries HELLO and
\* line 13 URYYB.
C6_RotBruteforce ==
    RotBruteforceRun =>
        /\ exit_status = "ok"
        /\ Len(stdout) = 26
        /\ \A k \in 0..25 : stdout[k + 1] = BruteforceLine(k, GivenText)
        /\ GivenText = HELLO =>
             /\ stdout[1] = << 82, 79, 84, 32, 48, 58, 32, 72, 69, 76, 76, 79 >>
             /\ stdout[14] = << 82, 79, 84, 32, 49, 51, 58, 32, 85, 82, 89, 89, 66 >>

C6_Witness ==
    /\ RotBruteforceRun
    /\ args.key.type = "NoneType"
    /\ GivenText = HELLO
    /\ Len(stdout) = 26
    /\ stdout[14] = << 82, 79, 84, 32, 49, 51, 58, 32, 85, 82, 89, 89, 66 >>

KeyedRunWithoutKey ==
    /\ Exited
    /\ args.cipher \in {"rot", "subst"}
    /\ args.operation \in {"encrypt", "decrypt"}
    /\ args.key.type = "NoneType"

KeylessEncryptWithKey ==
    /\ Exited
    /\ args.cipher \in {"numval", "atbash"}
    /\ args.operation = "encrypt"
    /\ args.key.type = "str"

\* C7 as stated: rot or subst with encrypt or decrypt and no -k ends in a
\* usage error, and so does numval or atbash with encrypt and a -k value;
\* in neither case is the cipher function invoked.
C7_KeyPresenceBothWays ==
    /\ KeyedRunWithoutKey => (UsageError /\ NotInvoked)
    /\ KeylessEncryptWithKey => (UsageError /\ NotInvoked)

\* C7 amended: rot or subst with encrypt or decrypt and no -k ends in a
\* usage error with no cipher function invoked; numval or atbash with
\* encrypt and a -k value is not refused for the key: the value is never
\* loaded, and with a text that is given and not purely numeric the cipher
\* function is invoked with the text and the operation alone and succeeds.
C7_KeyRequiredOnly ==
    /\ KeyedRunWithoutKey => (UsageError /\ NotInvoked)
    /\ KeylessEncryptWithKey =>
         /\ KEY.type = "NoneType"
         /\ (args.text.type = "str" /\ ~PurelyNumeric(GivenText)) =>
              /\ exit_status = "ok"
              /\ Invoked
              /\ invoked.func = args.cipher
              /\ invoked.args = << [arg |-> "text", value |-> PyStr(GivenText)],
                                   [arg |-> "operation", value |-> PyStr("encrypt")] >>
         /\ (args.text.type = "NoneType" \/ PurelyNumeric(GivenText)) =>
              (UsageError /\ NotInvoked)

C7_Witness ==
    /\ KeylessEncryptWithKey
    /\ args.cipher = "numval"
    /\ args.key.val = << 97, 98, 99 >>
    /\ args.text.type = "str"
    /\ GivenText = HELLO
    /\ exit_status = "ok"
    /\ stdout = << << 56, 32, 53, 32, 49, 50, 32, 49, 50, 32, 49, 53, 32 >> >>

\* C8: a run that fails fails in validation, before any cipher function is
\* invoked, as a usage error; the one exception is numval decrypt given a
\* token that is not an integer.
C8_FailuresAreUsageErrors ==
    (Exited /\ exit_status # "ok") =>
        \/ UsageError /\ NotInvoked
        \/ /\ args.cipher = "numval"
           /\ args.operation = "decrypt"
           /\ exit_status = "ValueError"

SignedDigits(s) ==
    /\ Len(s) > 0
    /\ LET body == IF s[1] \in {43, 45} THEN Tail(s) ELSE s IN
         Len(body) > 0 /\ \A n \in 1..Len(body) : body[n] \in 48..57

InvokedKey == invoked.args[2].value

\* C9: a cipher function is invoked only when the operation is one the
\* cipher supports and, for encrypt and decrypt, rot is handed an integer
\* key and subst a string key that is not an integer literal; a run of rot
\* whose key is not an integer, or of subst whose key is one, ends in a
\* usage error at the key type check.
C9_DispatchGate ==
    /\ Invoked =>
         /\ ~(invoked.func \in {"subst", "numval", "atbash"}
                /\ SELECTED_OPERATION = "bruteforce")
         /\ ~(invoked.func \in {"numval", "atbash"} /\ SELECTED_OPERATION = "generate")
         /\ invoked.func = args.cipher
         /\ SELECTED_OPERATION = args.operation
         /\ (invoked.func = "rot" /\ SELECTED_OPERATION \in {"encrypt", "decrypt"}) =>
                InvokedKey.type = "int"
         /\ (invoked.func = "subst" /\ SELECTED_OPERATION \in {"encrypt", "decrypt"}) =>
                (InvokedKey.type = "str" /\ ~SignedDigits(InvokedKey.val))
    /\ (Exited /\ SELECTED_CIPHER = "rot" /\ KEY.type = "str") =>
           (UsageError /\ NotInvoked)
    /\ (Exited /\ SELECTED_CIPHER = "subst" /\ KEY.type = "int") =>
           (UsageError /\ NotInvoked)
    /\ pc \in {"parse_args", "detect_cipher", "detect_operation",
               "check_compatibility", "load_text", "load_key", "check_key_type",
               "call"} => NotInvoked

C9_Witness ==
    /\ Exited
    /\ SELECTED_CIPHER = "subst"
    /\ SELECTED_OPERATION = "decrypt"
    /\ KEY.type = "int"
    /\ KEY.val = 10
    /\ UsageError
    /\ NotInvoked

NumericTextRun ==
    /\ Exited
    /\ args.cipher \in Ciphers
    /\ args.operation \in {"encrypt", "decrypt", "bruteforce"}
    /\ args.text.type = "str"
    /\ PurelyNumeric(GivenText)

\* C10: with encrypt, decrypt or bruteforce on any cipher, a text that is
\* purely numeric once trimmed ends the run in a usage error and no cipher
\* function is invoked, numval decrypt of the single token "1" included;
\* the text "3 1 2" and the empty text pass the check.
C10_NumericTextRejected ==
    /\ NumericTextRun => (UsageError /\ NotInvoked)
    /\ (Exited /\ args.cipher = "numval" /\ args.operation = "decrypt"
          /\ args.text.type = "str") =>
         /\ GivenText = << 49 >> => (UsageError /\ NotInvoked)
         /\ GivenText = << 51, 32, 49, 32, 50 >> =>
              (exit_status = "ok" /\ stdout = << << 67, 65, 66 >> >>)
         /\ GivenText = << >> => (exit_status = "ok" /\ stdout = << << >> >>)

C10_Witness ==
    /\ NumericTextRun
    /\ args.cipher = "numval"
    /\ args.operation = "decrypt"
    /\ GivenText = << 49 >>
    /\ UsageError

====
